---- MODULE Spec2Model ----
(***************************************************************************)
(* The render pipeline of the FFmpeg API (render.js, handleRender) as a    *)
(* state machine.  Node runs every callback to completion, so one action   *)
(* is one event-loop task: the handler's entry up to its first await, the  *)
(* settling of one download (with the continuation of handleRender that    *)
(* Promise.all releases), the settling of the upload.                      *)
(***************************************************************************)
EXTENDS Integers, Sequences, FiniteSets, TLC

\* ------------------------------------------------------------------ bounds
NumReq == 3        \* render submissions of one run
MaxGid == 2        \* caller-supplied generation_id numbers 1..MaxGid (0: absent)
MaxClock == 2      \* values of Date.now()
MaxScenes == 2     \* scenes of a request
MaxMusic == 1      \* music segments of a request
MaxDur == 2        \* durations, in ticks
TicksPerSecond == 2  \* resolution of the durations
MaxSegs == 2       \* music segments of a request, in the command builder
PerMs == 4         \* resolution of a segment's times: units per millisecond
NumKb == 2         \* requests to the single-image server
MaxBatch == 2      \* scenes of a batch request
MAX_CONCURRENT == 1  \* MAX_CONCURRENT_JOBS of the single-image server's environment

\* ------------------------------------------------------- program constants
MAX_CONCURRENT_RENDERS == 2
MinOutputSize == 1000
NaN == -1          \* parseFloat of a text that is no number
undefined == -2    \* a field the request body does not have

VARIABLES
  activeRenders,   \* let activeRenders
  now,             \* Date.now()
  pc,              \* where each submission's handleRender call stands
  body,            \* req.body of an admitted submission
  startTime,       \* const startTime
  renderLog,       \* const renderLog
  fetch,           \* the downloads of each job: "inflight", "ok", "failed"
  files,           \* downloaded files of the workspaces /tmp/render-{genId}
  dirs,            \* workspace directories that exist
  logFiles,        \* render_logs/renderlog_{genId}.json
  resp,            \* responses sent on res
  stage,           \* the pipeline stage handleRender is in
  trace,           \* history: what each job did, in order, tagged by stage
  wsAccess,        \* history: which job touched which workspace
  logHist,         \* history: every write of each log file
  assemblyCmd,     \* finalArgs: the final assembly command each job has built
  seen             \* history: whether no submission had been answered yet
                   \* when the last one arrived, and when the last handler
                   \* was entered

\* the single-image server (server.js)
VARIABLES
  activeJobs,      \* let activeJobs
  kpc,             \* the await each request's handler stands at
  kreq,            \* the route and the scenes of each request
  kidx,            \* the scene a batch handler is at (1 for /kenburns)
  kdirs,           \* the job directories of each request that exist
  kheld,           \* whether the request has a job in flight
  kresp,           \* responses sent on res
  khist            \* history: increments, decrements, directories made and
                   \* directories whose removal failed

renderVars ==
  <<activeRenders, now, pc, body, startTime, renderLog, fetch, files,
    dirs, logFiles, resp, stage, trace, wsAccess, logHist, assemblyCmd,
    seen>>
kbVars == <<activeJobs, kpc, kreq, kidx, kdirs, kheld, kresp, khist>>
vars == <<renderVars, kbVars>>

Reqs == 1..NumReq
MaxOf(a, b) == IF a >= b THEN a ELSE b
MinOf(a, b) == IF a <= b THEN a ELSE b
GenIds == 1..MaxOf(MaxGid, MaxClock)

\* ---------------------------------------------------------------- requests
MkScene(t) == [duration |-> t]
MkSegment == [start_time |-> 0, duration |-> 0, fade_in |-> 0, fade_out |-> 0]
NoBody ==
  [generation_id |-> 0, scenes |-> <<>>, narration_url |-> FALSE,
   b2_path |-> FALSE, music_segments |-> <<>>, music_volume |-> undefined,
   caption_file_url |-> FALSE, caption_style |-> ""]

SeqsUpTo(S, n) == UNION {[1..k -> S] : k \in 0..n}

Missing(b) ==
  (IF Len(b.scenes) = 0 THEN 1 ELSE 0) + (IF b.narration_url THEN 0 ELSE 1)
    + (IF b.b2_path THEN 0 ELSE 1)

Bodies(gids, lens, nScenes, nMusic, urls, styles) ==
  [generation_id : gids,
   scenes : SeqsUpTo({MkScene(t) : t \in lens}, nScenes),
   narration_url : BOOLEAN, b2_path : BOOLEAN,
   music_segments : SeqsUpTo({MkSegment}, nMusic), music_volume : {undefined},
   caption_file_url : urls, caption_style : styles]

\* the bodies of the pipeline runs: every shape of request, with captions
\* (a caption file and a style) or without
BodiesJ ==
  {b \in Bodies({1}, 1..MaxDur, MaxScenes, MaxMusic, BOOLEAN, {"none", "line_box"}) :
     b.caption_file_url <=> b.caption_style = "line_box"}

\* the bodies of the admission runs: one scene and narration without
\* generation_id, or the scenes missing
BodiesA ==
  {b \in Bodies({0}, {MaxDur}, 1, 0, {FALSE}, {"none"}) :
     b.narration_url /\ b.b2_path}

\* the bodies of the runs of two jobs: as BodiesA, without generation_id,
\* with a number 1..MaxGid, or with the string "1" (written -1)
BodiesP ==
  {b \in Bodies((-1)..MaxGid, {MaxDur}, 1, 0, {FALSE}, {"none"}) :
     b.narration_url /\ b.b2_path}

\* ------------------------------------------------------------- environment
\* What the world outside the process answers during one event-loop task:
\* whether fs.writeFileSync of the log and res.json succeed, and what ffprobe
\* and ffmpeg do for each scene and for the final assembly.
\* everything succeeds
DefaultEnv ==
  [logw |-> TRUE, send |-> TRUE, probe |-> <<>>, ff |-> <<>>, asm |-> TRUE,
   outExists |-> TRUE, outSize |-> MinOutputSize + 1, outProbe |-> "ok"]

\* ffprobe prints the duration, exits with an error, or prints a text that
\* is no number (N/A)
Probes == {"ok", "throws", "nan"}

\* An answer that the task never asks for is left at its default: after the
\* first failing transcode nothing else runs, and so on down the pipeline.
Asked(e, n) ==
  LET clipsOk == \A i \in 1..n : e.ff[i]
      rest(x) == x.asm /\ x.outExists /\ x.outSize = DefaultEnv.outSize /\ x.outProbe = "ok"
      passed == clipsOk /\ e.asm /\ e.outExists /\ e.outSize >= MinOutputSize
  IN /\ \A i, j \in 1..n : (~e.ff[i] /\ j > i) => (e.probe[j] = "ok" /\ e.ff[j])
     /\ ~clipsOk => rest(e)
     /\ ~e.asm => (e.outExists /\ e.outSize = DefaultEnv.outSize /\ e.outProbe = "ok")
     /\ ~e.outExists => (e.outSize = DefaultEnv.outSize /\ e.outProbe = "ok")
     /\ e.outSize < MinOutputSize => e.outProbe = "ok"
     /\ passed => (e.logw /\ e.send)
     /\ ~e.logw => e.send

Envs(n, logws, sends, ffs, asms, exists, sizes, probes) ==
  {e \in [logw : logws, send : sends, probe : [1..n -> probes],
          ff : [1..n -> ffs], asm : asms, outExists : exists, outSize : sizes,
          outProbe : probes] : Asked(e, n)}

\* the pipeline runs: every answer, for a request of n scenes
EnvsJ(n) ==
  Envs(n, BOOLEAN, BOOLEAN, BOOLEAN, BOOLEAN, BOOLEAN,
       {MinOutputSize - 1, MinOutputSize, MinOutputSize + 1}, Probes)

\* the tasks that run no subprocess meet only the log write and the response
CatchEnvsJ ==
  {e \in {[DefaultEnv EXCEPT !.logw = l, !.send = x] : l \in BOOLEAN, x \in BOOLEAN} :
     ~e.logw => e.send}

\* the admission runs: the subprocesses, the log write and the response
\* succeed; a job fails by its request, a download or the upload
EnvsA(n) ==
  Envs(n, {TRUE}, {TRUE}, {TRUE}, {TRUE}, {TRUE}, {MinOutputSize + 1}, {"ok"})

CatchEnvsA == {DefaultEnv}

\* the answers to draw for a job of n scenes
AnswersJ == [n \in 0..MaxScenes |-> EnvsJ(n)]
AnswersA == [n \in 0..MaxScenes |-> EnvsA(n)]

\* the lengths of the downloaded media
DursJ == 1..MaxDur
DursA == {MaxDur}

\* -------------------------------------------------------------- the state
\* The handlers are written as functions of a record of the variables, so
\* that the statements of handleRender compose in program order.
St ==
  [activeRenders |-> activeRenders, now |-> now, pc |-> pc, body |-> body,
   startTime |-> startTime, renderLog |-> renderLog, fetch |-> fetch,
   files |-> files, dirs |-> dirs, logFiles |-> logFiles, resp |-> resp,
   stage |-> stage, trace |-> trace, wsAccess |-> wsAccess,
   logHist |-> logHist, assemblyCmd |-> assemblyCmd, seen |-> seen]

Becomes(s) ==
  /\ activeRenders' = s.activeRenders /\ now' = s.now /\ pc' = s.pc
  /\ body' = s.body /\ startTime' = s.startTime /\ renderLog' = s.renderLog
  /\ fetch' = s.fetch /\ files' = s.files /\ dirs' = s.dirs
  /\ logFiles' = s.logFiles /\ resp' = s.resp /\ stage' = s.stage
  /\ trace' = s.trace /\ wsAccess' = s.wsAccess /\ logHist' = s.logHist
  /\ assemblyCmd' = s.assemblyCmd /\ seen' = s.seen
  /\ UNCHANGED kbVars

NewLog == [steps |-> <<>>, ffmpeg_commands |-> <<>>, clips |-> <<>>,
           result |-> "null", error |-> "", duration |-> 0,
           completed_at |-> FALSE]

FileNames ==
  ({"clip", "processed"} \X (1..MaxScenes)) \cup {<<"narration", 0>>}
    \cup ({"music"} \X (1..MaxMusic))
    \cup {<<"captions", 0>>, <<"concat", 0>>, <<"output", 0>>}

KbReqs == 1..NumKb
NoRequest == [route |-> "none", scenes |-> <<>>]

\* the single-image server after its start: no job, no request
KbInit ==
  /\ activeJobs = 0
  /\ kpc = [q \in KbReqs |-> "idle"]
  /\ kreq = [q \in KbReqs |-> NoRequest]
  /\ kidx = [q \in KbReqs |-> 0]
  /\ kdirs = [q \in KbReqs |-> {}]
  /\ kheld = [q \in KbReqs |-> FALSE]
  /\ kresp = [q \in KbReqs |-> <<>>]
  /\ khist = [q \in KbReqs |-> [inc |-> 0, dec |-> 0, made |-> 0, kept |-> {}]]

Init ==
  /\ KbInit
  /\ activeRenders = 0
  /\ now = 1
  /\ pc = [r \in Reqs |-> "idle"]
  /\ body = [r \in Reqs |-> NoBody]
  /\ startTime = [r \in Reqs |-> 0]
  /\ renderLog = [r \in Reqs |-> NewLog]
  /\ fetch = [r \in Reqs |-> <<>>]
  /\ files = [p \in GenIds \X FileNames |-> <<>>]
  /\ dirs = {}
  /\ logFiles = [g \in GenIds |-> <<>>]
  /\ resp = [r \in Reqs |-> <<>>]
  /\ stage = [r \in Reqs |-> "NONE"]
  /\ trace = [r \in Reqs |-> <<>>]
  /\ wsAccess = {}
  /\ logHist = [g \in GenIds |-> <<>>]
  /\ assemblyCmd = [r \in Reqs |-> <<>>]
  /\ seen = [arrival |-> FALSE, entry |-> FALSE]

\* ------------------------------------------------------------- primitives
Ev(s, r, k, w) ==
  [s EXCEPT !.trace[r] = Append(@, [stage |-> s.stage[r], kind |-> k, what |-> w])]

\* (mutant) one stage for the whole server instead of one per job
SetStage_Shared(s, r, g) ==
  Ev([s EXCEPT !.stage = [q \in Reqs |-> g]], r, "stage", g)

SetStage(s, r, g) == Ev([s EXCEPT !.stage[r] = g], r, "stage", g)

\* const genId = generation_id || startTime
\* A generation_id k > 0 is the JSON number k, -k is the JSON string "k".
genId(s, r) ==
  IF s.body[r].generation_id # 0 THEN s.body[r].generation_id ELSE s.startTime[r]

\* `${genId}`: the number k and the string "k" print the same text
Text(v) == IF v < 0 THEN 0 - v ELSE v

\* path.join('/tmp', `render-${genId}`), named by the text that tells it apart
tempDir(s, r) == Text(genId(s, r))

\* path.join(RENDER_LOGS_DIR, `renderlog_${generationId}.json`), likewise
logPath(s, r) == Text(genId(s, r))

\* a read or a write under /tmp/render-{genId}
Touch(s, r) == [s EXCEPT !.wsAccess = @ \cup {<<tempDir(s, r), r>>}]

PutFile(s, r, name, d, sz) ==
  Touch([s EXCEPT !.files[<<tempDir(s, r), name>>] =
                     <<[writer |-> r, dur |-> d, size |-> sz, list |-> <<>>]>>], r)

\* fs.writeFileSync of a text file that lists files of the workspace
PutList(s, r, name, l) ==
  Touch([s EXCEPT !.files[<<tempDir(s, r), name>>] =
                     <<[writer |-> r, dur |-> 0, size |-> 0, list |-> l]>>], r)

FileOf(s, r, name) == s.files[<<tempDir(s, r), name>>]

PushStep(s, r, name, msg) ==
  Ev([s EXCEPT !.renderLog[r].steps = Append(@, [step |-> name, error |-> msg])],
     r, "step", name)

\* (mutant) the command entry is put in front of the earlier ones
PushCommand_Front(s, r, name) ==
  [s EXCEPT !.renderLog[r].ffmpeg_commands = <<name>> \o @]

PushCommand(s, r, name) ==
  [s EXCEPT !.renderLog[r].ffmpeg_commands = Append(@, name)]

Respond(s, r, code, rec) ==
  Ev([s EXCEPT !.resp[r] = Append(@, [code |-> code] @@ rec)], r, "respond", code)

NoExtra == [status |-> "error", success |-> FALSE, error |-> "", duration |-> 0,
            active |-> 0, max |-> 0]

writeRenderLog(s, r) ==
  LET g == logPath(s, r)
      entry == [writer |-> r, log |-> s.renderLog[r]]
  IN Ev([s EXCEPT !.logFiles[g] = <<entry>>, !.logHist[g] = Append(@, entry)],
        r, "io", "log_write")

\* ---------------------------------------------------- catch and finally
\* catch (err) { ... writeRenderLog(genId, renderLog); res.status(500).json(errorResult) }
\* A throw of writeRenderLog or of res.json leaves the catch block at once.
\* (mutant) the failure response is sent whether or not the log was written
Catch_RespondsAnyway(s, r, msg, e) ==
  LET s1 == SetStage(s, r, "FAILED")
      s2 == [s1 EXCEPT !.renderLog[r].completed_at = TRUE,
                       !.renderLog[r].result = "error",
                       !.renderLog[r].error = msg]
      s3 == PushStep(s2, r, "error", msg)
  IN IF ~e.send THEN s3
     ELSE IF ~e.logw THEN Respond(s3, r, "500", [NoExtra EXCEPT !.error = msg])
     ELSE Respond(writeRenderLog(s3, r), r, "500", [NoExtra EXCEPT !.error = msg])

Catch(s, r, msg, e) ==
  LET s1 == SetStage(s, r, "FAILED")
      s2 == [s1 EXCEPT !.renderLog[r].completed_at = TRUE,
                       !.renderLog[r].result = "error",
                       !.renderLog[r].error = msg]
      s3 == PushStep(s2, r, "error", msg)
  IN IF ~e.logw THEN s3
     ELSE LET s4 == writeRenderLog(s3, r)
          IN IF ~e.send THEN s4
             ELSE Respond(s4, r, "500", [NoExtra EXCEPT !.error = msg])

\* (mutant) the counter is released at the end of the try block only
Finally_OnlyOnSuccess(s, r) ==
  IF s.stage[r] = "COMPLETE"
  THEN Ev([s EXCEPT !.activeRenders = @ - 1, !.pc[r] = "exited"], r, "counter", "dec")
  ELSE [s EXCEPT !.pc[r] = "exited"]

\* finally { activeRenders--; }
Finally(s, r) ==
  Ev([s EXCEPT !.activeRenders = @ - 1, !.pc[r] = "exited"], r, "counter", "dec")

Fail(s, r, msg, e) == Finally(Catch(s, r, msg, e), r)

\* ------------------------------------------------ admission and validation
\* (mutant) the refusal leaves through the finally block and releases a slot
Refuse_Releases(s, r) ==
  [Respond(s, r, "503",
           [NoExtra EXCEPT !.error = "Server busy", !.active = s.activeRenders,
                           !.max = MAX_CONCURRENT_RENDERS])
     EXCEPT !.pc[r] = "refused", !.activeRenders = @ - 1]

Refuse(s, r) ==
  [Respond(s, r, "503",
           [NoExtra EXCEPT !.error = "Server busy", !.active = s.activeRenders,
                           !.max = MAX_CONCURRENT_RENDERS])
     EXCEPT !.pc[r] = "refused"]

\* (mutant) the admission check compares with > instead of >=
Busy_OffByOne(s) == s.activeRenders > MAX_CONCURRENT_RENDERS

\* if (activeRenders >= MAX_CONCURRENT_RENDERS)
Busy(s) == s.activeRenders >= MAX_CONCURRENT_RENDERS

Admit(s, r, b) ==
  SetStage(Ev([s EXCEPT !.activeRenders = @ + 1, !.startTime[r] = s.now,
                        !.renderLog[r] = NewLog, !.body[r] = b],
              r, "counter", "inc"),
           r, "VALIDATING")

ValidationError(b) ==
  IF Len(b.scenes) = 0 THEN "No scenes provided"
  ELSE IF ~b.narration_url THEN "No narration_url provided"
  ELSE IF ~b.b2_path THEN "No b2_path provided"
  ELSE ""

MakeDirs(s, r) ==
  Ev(Touch([s EXCEPT !.dirs = @ \cup {tempDir(s, r)}], r), r, "io", "mkdir")

hasCaptions(b) ==
  b.caption_file_url /\ b.caption_style # "" /\ b.caption_style # "none"

\* the destinations of the downloads array, in the order they are pushed
Downloads(b) ==
  [i \in 1..Len(b.scenes) |-> <<"clip", i>>] \o <<(<<"narration", 0>>)>>
    \o [i \in 1..Len(b.music_segments) |-> <<"music", i>>]
    \o (IF hasCaptions(b) THEN <<(<<"captions", 0>>)>> ELSE <<>>)

RECURSIVE StartFetches(_, _, _)
StartFetches(s, r, i) ==
  IF i > Len(Downloads(s.body[r])) THEN s
  ELSE StartFetches(Ev([s EXCEPT !.fetch[r] = Append(@, "inflight")],
                       r, "fetch", "start"), r, i + 1)

StartDownloads(s, r) ==
  [StartFetches(s, r, 1) EXCEPT !.pc[r] = "downloading"]

\* --------------------------------------------------- STEP 2: normalization
\* probeDuration: parseFloat of what ffprobe prints, 0 when execSync throws
probeDuration(s, r, name, answer) ==
  IF answer = "throws" \/ FileOf(s, r, name) = <<>> THEN 0
  ELSE IF answer = "nan" THEN NaN
  ELSE FileOf(s, r, name)[1].dur

\* a < b on JavaScript numbers: false when either is NaN
Less(a, b) == a # NaN /\ b # NaN /\ a < b

\* Math.ceil of x seconds, x >= 0 given in ticks
Ceil(x) == ((x + TicksPerSecond - 1) \div TicksPerSecond) * TicksPerSecond

\* Math.ceil(targetDuration - sourceDuration) + 1
padSeconds(targetDuration, sourceDuration) ==
  Ceil(targetDuration - sourceDuration) + TicksPerSecond

\* what "-vf tpad=stop_duration=pad ... -t target" leaves of a clip of length len
TrimmedLength(len, pad, targetDuration) == MinOf(len + pad, targetDuration)

\* one pass of the for loop over the scenes; err # "" is a throw of runFFmpeg
RECURSIVE Preprocess(_, _, _, _)
Preprocess(s, r, i, e) ==
  IF i > Len(s.body[r].scenes) THEN [st |-> s, err |-> ""]
  ELSE
    LET targetDuration == s.body[r].scenes[i].duration
        s1 == Ev(Touch(s, r), r, "io", "probe")
        sourceDuration == probeDuration(s1, r, <<"clip", i>>, e.probe[i])
        needsPadding == Less(sourceDuration, targetDuration)
        pad == IF needsPadding THEN padSeconds(targetDuration, sourceDuration) ELSE 0
        s2 == Ev(s1, r, "io", "ffmpeg")
        len == IF FileOf(s1, r, <<"clip", i>>) # <<>>
               THEN FileOf(s1, r, <<"clip", i>>)[1].dur ELSE 0
        s3 == PutFile(s2, r, <<"processed", i>>,
                      TrimmedLength(len, pad, targetDuration), 0)
        s4 == [PushCommand(s3, r, <<"clip", i>>) EXCEPT
                 !.renderLog[r].clips = Append(@,
                    [scene |-> i, source_duration |-> sourceDuration,
                     target_duration |-> targetDuration, padded |-> needsPadding])]
    IN IF ~e.ff[i] THEN [st |-> s2, err |-> "FFmpeg failed (clip)"]
       ELSE Preprocess(s4, r, i + 1, e)

\* ------------------------------------------ STEP 3 and 4: final assembly
RECURSIVE VideoLength(_, _, _)
VideoLength(s, r, i) ==
  IF i > Len(s.body[r].scenes) THEN 0
  ELSE (IF FileOf(s, r, <<"processed", i>>) # <<>>
        THEN FileOf(s, r, <<"processed", i>>)[1].dur ELSE 0)
       + VideoLength(s, r, i + 1)

\* amix=...:duration=first puts the audio at the narration's length, and
\* -shortest ends the output with the shorter of video and audio
OutputLength(s, r) ==
  MinOf(VideoLength(s, r, 1),
        IF FileOf(s, r, <<"narration", 0>>) # <<>>
        THEN FileOf(s, r, <<"narration", 0>>)[1].dur ELSE 0)

\* ------------------------------------------- STEP 4: the final command
\* Times of a music segment are counted in units of 1/PerMs millisecond and
\* volumes in hundredths, so that the defaults 2, 1.5, 30 and 0.08 of the
\* code are whole numbers.
Millis(n) == n * PerMs
volDefault == 8
fadeInDefault == Millis(2000)
fadeOutDefault == Millis(1500)
segDurationDefault == Millis(30000)

\* a || b of JavaScript on numbers: 0 and undefined are falsy
OrElse(a, b) == IF a \in {0, undefined} THEN b ELSE a

\* Math.round(seconds * 1000): milliseconds, halves rounded up
RoundMs(x) == (2 * x + PerMs) \div (2 * PerMs)

Label(l, i) == [l |-> l, i |-> i]

\* `-f concat -i concat.txt -i narration.mp3`, then one -i per music path;
\* input number j of the command is inputs(b)[j + 1]
inputs(b) ==
  <<(<<"concat", 0>>), (<<"narration", 0>>)>>
    \o [k \in 1..Len(b.music_segments) |-> <<"music", k>>]

\* the effects of a music chain: volume, fades, optional delay
Effects(b, seg) ==
  LET vol == OrElse(b.music_volume, volDefault)
      delayMs == RoundMs(OrElse(seg.start_time, 0))
      fadeIn == OrElse(seg.fade_in, fadeInDefault)
      fadeOut == OrElse(seg.fade_out, fadeOutDefault)
      segDuration == OrElse(seg.duration, segDurationDefault)
      fadeOutStart == MaxOf(0, segDuration - fadeOut)
  IN [volume |-> vol, fadeIn |-> fadeIn, fadeOutStart |-> fadeOutStart,
      fadeOut |-> fadeOut,
      adelay |-> IF delayMs > 0 THEN <<delayMs>> ELSE <<>>]

chain_WrongInput(b, seg, i) ==
  [in |-> i + 1, fx |-> <<Effects(b, seg)>>, out |-> Label("m", i)]

\* the chain of the forEach callback for segment seg at (0-based) index i
chain(b, seg, i) ==
  LET inputIdx == i + 2
  IN [in |-> inputIdx, fx |-> <<Effects(b, seg)>>, out |-> Label("m", i)]

filterParts(b) ==
  <<[in |-> 1, fx |-> <<>>, out |-> Label("nar", 0)]>>
    \o [k \in 1..Len(b.music_segments) |-> chain(b, b.music_segments[k], k - 1)]

mixInputs(b) ==
  <<Label("nar", 0)>> \o [k \in 1..Len(b.music_segments) |-> Label("m", k - 1)]

audioFilter(b) ==
  IF Len(mixInputs(b)) = 1
  THEN [parts |-> <<[filterParts(b)[1] EXCEPT !.out = Label("audio", 0)]>>,
        mix |-> <<>>]
  ELSE [parts |-> filterParts(b),
        mix |-> <<[ins |-> mixInputs(b), inputs |-> Len(mixInputs(b)),
                   duration |-> "first", out |-> Label("audio", 0)]>>]

\* the own properties of the styles object: the force_style of each preset,
\* told apart by BackColour, BorderStyle and Outline
styles ==
  [just_text |-> [BackColour |-> "", BorderStyle |-> 1, Outline |-> 3],
   line_box |-> [BackColour |-> "&H99000000", BorderStyle |-> 4, Outline |-> 0],
   word_box |-> [BackColour |-> "&HB3000000", BorderStyle |-> 4, Outline |-> 0]]

\* the members every object literal inherits from Object.prototype
ObjectPrototype ==
  {"constructor", "toString", "valueOf", "hasOwnProperty"}

\* what an inherited member prints as in the template literal: the source
\* text of a function, none of the style parameters
Inherited(name) == [BackColour |-> name, BorderStyle |-> 0, Outline |-> 0]

\* styles[styleName] || styles.line_box: the lookup also finds inherited
\* members, and those are truthy
getCaptionStyle(styleName) ==
  IF styleName \in DOMAIN styles THEN styles[styleName]
  ELSE IF styleName \in ObjectPrototype THEN Inherited(styleName)
  ELSE styles.line_box

videoFilter(b) ==
  IF hasCaptions(b)
  THEN <<[subtitles |-> <<"captions", 0>>,
          force_style |-> getCaptionStyle(b.caption_style)]>>
  ELSE <<>>

finalArgs(b) ==
  [inputs |-> inputs(b), audioFilter |-> audioFilter(b),
   videoFilter |-> videoFilter(b), shortest |-> TRUE]

\* STEP 3: one line per scene, naming processed/{padded}.mp4
concatContent(b) == [i \in 1..Len(b.scenes) |-> <<"processed", i>>]

Assemble(s, r, e) ==
  LET s1 == Ev(PutList(s, r, <<"concat", 0>>, concatContent(s.body[r])),
               r, "io", "concat")
      s2 == Ev([s1 EXCEPT !.assemblyCmd[r] = <<finalArgs(s.body[r])>>],
               r, "io", "ffmpeg")
      s3 == IF e.outExists
            THEN PutFile(s2, r, <<"output", 0>>, OutputLength(s2, r), e.outSize)
            ELSE s2
      s4 == PushCommand(s3, r, <<"assembly", 0>>)
      out == FileOf(s4, r, <<"output", 0>>)
      outputDuration == probeDuration(s4, r, <<"output", 0>>, e.outProbe)
      s5 == Ev(s4, r, "io", "probe")
      s6 == PushStep([s5 EXCEPT !.renderLog[r].duration = outputDuration],
                     r, "assembly", "")
  IN IF ~e.asm THEN [st |-> s2, err |-> "FFmpeg failed (final assembly)"]
     ELSE IF out = <<>> THEN [st |-> s4, err |-> "FFmpeg produced no output file"]
     ELSE IF out[1].size < MinOutputSize
          THEN [st |-> s4, err |-> "Output file suspiciously small"]
     ELSE [st |-> s6, err |-> ""]

\* uploadToB2 up to its await client.send(command)
StartUpload(s, r) ==
  [Ev(Touch(s, r), r, "io", "upload_start") EXCEPT !.pc[r] = "uploading"]

\* (mutant) a failure of a clip is not thrown: assembly and upload go on
AfterDownloads_IgnoresClipFailure(s, r, e) ==
  LET s1 == SetStage(PushStep(s, r, "download", ""), r, "PREPROCESSING")
      p == Preprocess(s1, r, 1, e)
      s2 == SetStage(PushStep(p.st, r, "preprocess", ""), r, "ASSEMBLING")
      a == Assemble(s2, r, e)
  IN IF a.err # "" THEN Fail(a.st, r, a.err, e)
     ELSE StartUpload(SetStage(a.st, r, "UPLOADING"), r)

\* handleRender from the resolution of Promise.all to the await of the upload
AfterDownloads(s, r, e) ==
  LET s1 == SetStage(PushStep(s, r, "download", ""), r, "PREPROCESSING")
      p == Preprocess(s1, r, 1, e)
      s2 == SetStage(PushStep(p.st, r, "preprocess", ""), r, "ASSEMBLING")
      a == Assemble(s2, r, e)
  IN IF p.err # "" THEN Fail(p.st, r, p.err, e)
     ELSE IF a.err # "" THEN Fail(a.st, r, a.err, e)
     ELSE StartUpload(SetStage(a.st, r, "UPLOADING"), r)

\* handleRender after the upload: STEP 6, or the catch block
AfterUpload(s, r, ok, e) ==
  LET s1 == PushStep(Ev(s, r, "io", "upload_done"), r, "upload", "")
      s2 == [s1 EXCEPT !.renderLog[r].completed_at = TRUE,
                       !.renderLog[r].result = "complete"]
      s3 == writeRenderLog(s2, r)
      s4 == SetStage(s3, r, "COMPLETE")
  IN IF ~ok THEN Fail(s, r, "Upload failed", e)
     ELSE IF ~e.logw THEN Fail(s2, r, "log write failed", e)
     ELSE IF ~e.send THEN Fail(s3, r, "response failed", e)
     ELSE Finally(Respond(s4, r, "200",
                          [NoExtra EXCEPT !.status = "complete", !.success = TRUE,
                                          !.duration = s.renderLog[r].duration]), r)

\* ---------------------------------------------------------- the handlers
\* handleRender from its call to its first await (or to its return)
Answered(s) == \E q \in Reqs : s.resp[q] # <<>>

handleRender(s0, r, b, e) ==
  LET s == IF \A q \in Reqs \ {r} : s0.pc[q] \notin {"idle", "arrived"}
           THEN [s0 EXCEPT !.seen.entry = ~Answered(s0)] ELSE s0 IN
  IF Busy(s) THEN Refuse(s, r)
  ELSE LET s1 == Admit(s, r, b)
           s2 == SetStage(PushStep(s1, r, "validate", ""), r, "DOWNLOADING")
       IN IF ValidationError(b) # "" THEN Fail(s1, r, ValidationError(b), e)
          ELSE StartDownloads(MakeDirs(s2, r), r)

AllFetched(s, r) == \A k \in DOMAIN s.fetch[r] : s.fetch[r][k] = "ok"

\* file.on('finish'): resolve(destPath); the last one resolves Promise.all
fetchResolve(s, r, i, d, e) ==
  LET s1 == Ev(PutFile([s EXCEPT !.fetch[r][i] = "ok"], r,
                       Downloads(s.body[r])[i], d, 0), r, "fetch", "resolve")
  IN IF s1.pc[r] = "downloading" /\ AllFetched(s1, r)
     THEN AfterDownloads(s1, r, e) ELSE s1

\* (mutant) a failed download is tolerated: the stage goes on once all settled
fetchReject_Tolerant(s, r, i, e) ==
  LET s1 == Ev([s EXCEPT !.fetch[r][i] = "failed"], r, "fetch", "reject")
  IN IF s1.pc[r] = "downloading" /\ \A k \in DOMAIN s1.fetch[r] : s1.fetch[r][k] # "inflight"
     THEN AfterDownloads(s1, r, e) ELSE s1

\* reject(...): the first one rejects Promise.all, the others are not awaited
fetchReject(s, r, i, e) ==
  LET s1 == Ev([s EXCEPT !.fetch[r][i] = "failed"], r, "fetch", "reject")
  IN IF s1.pc[r] = "downloading" THEN Fail(s1, r, "Download failed", e) ELSE s1

\* the last download resolves and the first subprocess of STEP 2 does not
\* exit: execSync has no timeout, so the task never ends
fetchResolveBlocks(s, r, i, d) ==
  LET s1 == Ev(PutFile([s EXCEPT !.fetch[r][i] = "ok"], r,
                       Downloads(s.body[r])[i], d, 0), r, "fetch", "resolve")
      s2 == SetStage(PushStep(s1, r, "download", ""), r, "PREPROCESSING")
      s3 == Ev(Touch(s2, r), r, "io", "probe")
  IN [s3 EXCEPT !.pc[r] = "blocked"]

\* ------------------------------------------------------------ the actions
Tick ==
  /\ now < MaxClock
  /\ now' = now + 1
  /\ UNCHANGED <<activeRenders, pc, body, startTime, renderLog, fetch, files,
                 dirs, logFiles, resp, stage, trace, wsAccess, logHist,
                 assemblyCmd, seen>>
  /\ UNCHANGED kbVars

\* execSync blocks the only thread: nothing runs while a subprocess hangs
Running == \A q \in Reqs : pc[q] # "blocked"

\* a POST /render reaches the server; server.js has not called handleRender yet
Arrive(r) ==
  /\ Running /\ pc[r] = "idle"
  /\ pc' = [pc EXCEPT ![r] = "arrived"]
  /\ seen' = IF \A q \in Reqs \ {r} : pc[q] # "idle"
             THEN [seen EXCEPT !.arrival = ~Answered(St)] ELSE seen
  /\ UNCHANGED <<activeRenders, now, body, startTime, renderLog, fetch, files,
                 dirs, logFiles, resp, stage, trace, wsAccess, logHist,
                 assemblyCmd>>
  /\ UNCHANGED kbVars

Submit(r, b, e) ==
  /\ Running /\ pc[r] = "arrived"
  /\ Becomes(handleRender(St, r, b, e))

\* a request of download i is out: the first one, or the one that followed a
\* redirect
Inflight(r, i) == i \in DOMAIN fetch[r] /\ fetch[r][i] \in {"inflight", "redirected"}

IsLast(r, i) ==
  pc[r] = "downloading" /\ \A k \in DOMAIN fetch[r] : k # i => fetch[r][k] = "ok"

HasLength(r, i) == Downloads(body[r])[i][1] \in {"clip", "narration"}

FetchResolve(r, i, d, e) ==
  /\ Running /\ Inflight(r, i)
  /\ Becomes(fetchResolve(St, r, i, d, e))

FetchReject(r, i, e) ==
  /\ Running /\ Inflight(r, i)
  /\ Becomes(fetchReject(St, r, i, e))

UploadResolve(r, e) ==
  /\ Running /\ pc[r] = "uploading"
  /\ Becomes(AfterUpload(St, r, TRUE, e))

UploadReject(r, e) ==
  /\ Running /\ pc[r] = "uploading"
  /\ Becomes(AfterUpload(St, r, FALSE, e))

NeedsCatch(r, b) == ~Busy(St) /\ ValidationError(b) # ""

\* a download or the upload of job r returns
Settle(r, E, CE, D) ==
  \/ \E i \in 1..(MaxScenes + MaxMusic + 2) :
       /\ Inflight(r, i)
       /\ \E d \in (IF HasLength(r, i) THEN D ELSE {0}),
             e \in (IF IsLast(r, i) THEN E[Len(body[r].scenes)] ELSE {DefaultEnv}) :
            FetchResolve(r, i, d, e)
  \/ \E i \in 1..(MaxScenes + MaxMusic + 2) :
       /\ Inflight(r, i)
       /\ \E e \in (IF pc[r] = "downloading" THEN CE ELSE {DefaultEnv}) :
            FetchReject(r, i, e)
  \/ \E e \in CE : UploadResolve(r, e)
  \/ \E e \in CE : UploadReject(r, e)

\* the steps of the server, for given sets of submissions, bodies, answers
\* of the environment and media lengths
Step(R, B, E, CE, D) ==
  \/ \E r \in R : Arrive(r)
  \/ \E r \in R, b \in B :
       \E e \in (IF NeedsCatch(r, b) THEN CE ELSE {DefaultEnv}) : Submit(r, b, e)
  \/ \E r \in R : Settle(r, E, CE, D)

\* admission: NumReq submissions of small requests
Next == Tick \/ Step(Reqs, BodiesA, AnswersA, CatchEnvsA, DursA)
Spec == Init /\ [][Next]_vars

\* admission on a stopped clock, where every download and every upload
\* eventually returns
FairNext == Step(Reqs, BodiesA, AnswersA, CatchEnvsA, DursA)
\* a download in flight returns (file 'finish', or a reject)
FetchReturns ==
  \E r \in Reqs, i \in 1..(MaxScenes + MaxMusic + 2), v \in {"ok", "failed"} :
    Inflight(r, i) /\ fetch' = [fetch EXCEPT ![r][i] = v]

\* the upload awaited by a job returns, and the job leaves handleRender
UploadReturns ==
  \E r \in Reqs : pc[r] = "uploading" /\ pc' = [pc EXCEPT ![r] = "exited"]

FairSpec ==
  Init /\ [][FairNext]_vars /\ WF_fetch(FetchReturns) /\ WF_pc(UploadReturns)

\* two jobs and their generation_id
PairNext == Tick \/ Step({1, 2}, BodiesP, AnswersA, CatchEnvsA, DursA)
PairSpec == Init /\ [][PairNext]_vars

\* response.statusCode in 300..399 with a location: request(location), for
\* a server whose two addresses redirect to each other
Redirect(r, i) ==
  /\ Running /\ Inflight(r, i)
  /\ fetch' = [fetch EXCEPT ![r][i] = IF @ = "inflight" THEN "redirected"
                                       ELSE "inflight"]
  /\ UNCHANGED <<activeRenders, now, pc, body, startTime, renderLog, files,
                 dirs, logFiles, resp, stage, trace, wsAccess, logHist,
                 assemblyCmd, seen>>
  /\ UNCHANGED kbVars

\* the last download of a job resolves and ffprobe of the first clip hangs
FetchResolveBlocks(r, i, d) ==
  /\ Running /\ Inflight(r, i) /\ IsLast(r, i)
  /\ Becomes(fetchResolveBlocks(St, r, i, d))

\* two jobs, servers that may redirect, subprocesses that may hang
LiveNext ==
  \/ Step({1, 2}, BodiesA, AnswersA, CatchEnvsA, DursA)
  \/ \E r \in {1, 2}, i \in 1..(MaxScenes + MaxMusic + 2) : Redirect(r, i)
  \/ \E r \in {1, 2}, i \in 1..(MaxScenes + MaxMusic + 2) :
       FetchResolveBlocks(r, i, MaxDur)

\* every request of a download is answered: by the file, an error or a
\* redirect
FetchAnswered ==
  \E r \in Reqs, i \in 1..(MaxScenes + MaxMusic + 2),
     v \in {"ok", "failed", "inflight", "redirected"} :
    Running /\ Inflight(r, i) /\ fetch' = [fetch EXCEPT ![r][i] = v]

LiveSpec ==
  Init /\ [][LiveNext]_vars /\ WF_fetch(FetchAnswered) /\ WF_pc(UploadReturns)

\* the segments of the command builder: every parameter absent (0) or set,
\* a start below half a millisecond included
SegsG ==
  [start_time : {0, 1, Millis(1000)}, duration : {0, Millis(1000)},
   fade_in : {0, Millis(1000)}, fade_out : {0, Millis(2000)}]

StylesG ==
  {"", "none", "just_text", "line_box", "word_box", "karaoke", "constructor"}

BodiesG ==
  [generation_id : {1}, scenes : {<<MkScene(1)>>}, narration_url : {TRUE},
   b2_path : {TRUE}, music_segments : SeqsUpTo(SegsG, MaxSegs),
   music_volume : {undefined, 0, 50}, caption_file_url : BOOLEAN,
   caption_style : StylesG]

\* STEP 4 alone: the command is built from the request body
BuildCommand(r) ==
  /\ body[r] # NoBody /\ assemblyCmd[r] = <<>>
  /\ assemblyCmd' = [assemblyCmd EXCEPT ![r] = <<finalArgs(body[r])>>]
  /\ UNCHANGED <<activeRenders, now, pc, body, startTime, renderLog, fetch,
                 files, dirs, logFiles, resp, stage, trace, wsAccess, logHist,
                 seen>>
  /\ UNCHANGED kbVars

GraphInit ==
  /\ KbInit
  /\ \E b \in BodiesG : body = [r \in Reqs |-> IF r = 1 THEN b ELSE NoBody]
  /\ activeRenders = 0 /\ now = 1
  /\ pc = [r \in Reqs |-> "idle"]
  /\ startTime = [r \in Reqs |-> 0]
  /\ renderLog = [r \in Reqs |-> NewLog]
  /\ fetch = [r \in Reqs |-> <<>>]
  /\ files = [p \in GenIds \X FileNames |-> <<>>]
  /\ dirs = {}
  /\ logFiles = [g \in GenIds |-> <<>>]
  /\ resp = [r \in Reqs |-> <<>>]
  /\ stage = [r \in Reqs |-> "NONE"]
  /\ trace = [r \in Reqs |-> <<>>]
  /\ wsAccess = {}
  /\ logHist = [g \in GenIds |-> <<>>]
  /\ assemblyCmd = [r \in Reqs |-> <<>>]
  /\ seen = [arrival |-> FALSE, entry |-> FALSE]

GraphNext == \E r \in Reqs : BuildCommand(r)
GraphSpec == GraphInit /\ [][GraphNext]_vars

\* pipeline: one submission, of any shape, meeting any answer
JobNext == Step({1}, BodiesJ, AnswersJ, CatchEnvsJ, DursJ)
JobSpec == Init /\ [][JobNext]_vars

\* ============================================ the single-image server
\* server.js: POST /kenburns and POST /kenburns/batch.  One action is one
\* event-loop task: a handler from its entry, or from the return of the call
\* it awaits, to its next await or to its end.
\* A scene is "ok", lacks a required field ("missing"), or is null, so that
\* destructuring it throws ("null").
KbBodies ==
  [route : {"single"}, scenes : [1..1 -> {"ok", "missing"}]]
    \cup [route : {"batch"}, scenes : SeqsUpTo({"ok", "missing", "null"}, MaxBatch)]

Ks ==
  [activeJobs |-> activeJobs, kpc |-> kpc, kreq |-> kreq, kidx |-> kidx,
   kdirs |-> kdirs, kheld |-> kheld, kresp |-> kresp, khist |-> khist]

KbBecomes(k) ==
  /\ activeJobs' = k.activeJobs /\ kpc' = k.kpc /\ kreq' = k.kreq
  /\ kidx' = k.kidx /\ kdirs' = k.kdirs /\ kheld' = k.kheld
  /\ kresp' = k.kresp /\ khist' = k.khist
  /\ UNCHANGED renderVars

\* res.status(code).json(...) as the last statement of a handler; a throw of
\* it outside a try block leaves the request unanswered
kbRespond(k, q, code) ==
  [k EXCEPT !.kresp[q] = Append(@, code), !.kpc[q] = "done"]
kbLeave(k, q) == [k EXCEPT !.kpc[q] = "done"]

\* activeJobs++
kbIncrement(k, q) ==
  [k EXCEPT !.activeJobs = @ + 1, !.kheld[q] = TRUE, !.khist[q].inc = @ + 1]

\* (mutant) the catch block answers without cleaning up
kbCatch_NoCleanup(k, q) ==
  LET k1 == [k EXCEPT !.activeJobs = MaxOf(0, @ - 1), !.kheld[q] = FALSE,
                      !.khist[q].dec = @ + 1]
  IN IF k.kreq[q].route = "single" THEN kbRespond(k1, q, "500")
     ELSE [k1 EXCEPT !.kpc[q] = "cleanup_err"]

\* catch (err) { activeJobs = Math.max(0, activeJobs - 1); await cleanupJob(jobDir)
kbCatch(k, q) ==
  [k EXCEPT !.activeJobs = MaxOf(0, @ - 1), !.kheld[q] = FALSE,
            !.khist[q].dec = @ + 1, !.kpc[q] = "cleanup_err"]

\* POST /kenburns up to await fsp.mkdir; json is whether res.json succeeds
postKenburns(k, q, json) ==
  IF k.kreq[q].scenes[1] = "missing"
  THEN (IF json THEN kbRespond(k, q, "400") ELSE kbCatch(k, q))
  ELSE IF k.activeJobs >= MAX_CONCURRENT
  THEN (IF json THEN kbRespond(k, q, "429") ELSE kbCatch(k, q))
  ELSE [kbIncrement(k, q) EXCEPT !.kidx[q] = 1, !.kpc[q] = "mkdir"]

\* the for loop of POST /kenburns/batch from scene i to its next await, or to
\* the response after the last scene
RECURSIVE batchLoop(_, _, _, _)
batchLoop(k, q, i, json) ==
  LET scenes == k.kreq[q].scenes
      k1 == [k EXCEPT !.kidx[q] = i]
  IN IF i > Len(scenes)
     THEN (IF json THEN kbRespond(k, q, "200") ELSE kbLeave(k, q))
     ELSE IF scenes[i] = "null" THEN kbCatch(k1, q)
     ELSE IF scenes[i] = "missing" THEN batchLoop(k, q, i + 1, json)
     ELSE [kbIncrement(k1, q) EXCEPT !.kpc[q] = "mkdir"]

\* POST /kenburns/batch up to its first await
postBatch(k, q, json) ==
  IF k.kreq[q].scenes = <<>>
  THEN (IF json THEN kbRespond(k, q, "400") ELSE kbLeave(k, q))
  ELSE batchLoop(k, q, 1, json)

\* after await fsp.mkdir: the directory exists, downloadFile is awaited
afterMkdir(k, q, ok) ==
  IF ~ok THEN kbCatch(k, q)
  ELSE [k EXCEPT !.kdirs[q] = @ \cup {k.kidx[q]}, !.khist[q].made = @ + 1,
                 !.kpc[q] = "download"]

\* after an awaited call between mkdir and cleanupJob: go on, or catch
afterAwait(k, q, ok, next) ==
  IF ~ok THEN kbCatch(k, q) ELSE [k EXCEPT !.kpc[q] = next]

\* cleanupJob: fsp.rm removes the directory, or fails and is only logged
cleanupJob(k, q, removed) ==
  IF removed THEN [k EXCEPT !.kdirs[q] = @ \ {k.kidx[q]}]
  ELSE [k EXCEPT !.khist[q].kept = @ \cup (k.kdirs[q] \cap {k.kidx[q]})]

\* after await cleanupJob on the success path
afterCleanup(k, q, removed, json) ==
  LET k1 == cleanupJob(k, q, removed)
      single == [k1 EXCEPT !.activeJobs = @ - 1, !.kheld[q] = FALSE,
                           !.khist[q].dec = @ + 1]
      batch == [k1 EXCEPT !.activeJobs = MaxOf(0, @ - 1), !.kheld[q] = FALSE,
                          !.khist[q].dec = @ + 1]
  IN IF k.kreq[q].route = "single"
     THEN (IF json THEN kbRespond(single, q, "200") ELSE kbCatch(single, q))
     ELSE batchLoop(batch, q, k.kidx[q] + 1, json)

\* after await cleanupJob in a catch block: the 500 of /kenburns, or the
\* failed result of the scene, whose scene.scene_number throws for null
afterCatchCleanup(k, q, removed, json) ==
  LET k1 == cleanupJob(k, q, removed)
  IN IF k.kreq[q].route = "single"
     THEN (IF json THEN kbRespond(k1, q, "500") ELSE kbLeave(k1, q))
     ELSE IF k.kidx[q] \in DOMAIN k.kreq[q].scenes /\ k.kreq[q].scenes[k.kidx[q]] = "null"
     THEN kbLeave(k1, q)
     ELSE batchLoop(k1, q, k.kidx[q] + 1, json)

KbPost(q, b, json) ==
  /\ kpc[q] = "idle"
  /\ KbBecomes(IF b.route = "single"
               THEN postKenburns([Ks EXCEPT !.kreq[q] = b], q, json)
               ELSE postBatch([Ks EXCEPT !.kreq[q] = b], q, json))

KbMkdir(q, ok) ==
  /\ kpc[q] = "mkdir"
  /\ KbBecomes(afterMkdir(Ks, q, ok))

KbDownload(q, ok) ==
  /\ kpc[q] = "download"
  /\ KbBecomes(afterAwait(Ks, q, ok, "ffmpeg"))

KbFfmpeg(q, ok) ==
  /\ kpc[q] = "ffmpeg"
  /\ KbBecomes(afterAwait(Ks, q, ok, "upload"))

KbUpload(q, ok) ==
  /\ kpc[q] = "upload"
  /\ KbBecomes(afterAwait(Ks, q, ok, "cleanup"))

KbCleanup(q, removed, json) ==
  /\ kpc[q] = "cleanup"
  /\ KbBecomes(afterCleanup(Ks, q, removed, json))

KbCatchCleanup(q, removed, json) ==
  /\ kpc[q] = "cleanup_err"
  /\ KbBecomes(afterCatchCleanup(Ks, q, removed, json))

KbNext ==
  \/ \E q \in KbReqs, b \in KbBodies, json \in BOOLEAN : KbPost(q, b, json)
  \/ \E q \in KbReqs, ok \in BOOLEAN : KbMkdir(q, ok)
  \/ \E q \in KbReqs, ok \in BOOLEAN : KbDownload(q, ok)
  \/ \E q \in KbReqs, ok \in BOOLEAN : KbFfmpeg(q, ok)
  \/ \E q \in KbReqs, ok \in BOOLEAN : KbUpload(q, ok)
  \/ \E q \in KbReqs, removed \in BOOLEAN, json \in BOOLEAN : KbCleanup(q, removed, json)
  \/ \E q \in KbReqs, removed \in BOOLEAN, json \in BOOLEAN :
       KbCatchCleanup(q, removed, json)

KbSpec == Init /\ [][KbNext]_vars

\* ================================================================ claims
Active(r) == pc[r] \in {"downloading", "uploading"}
Handled(r) == pc[r] \notin {"idle", "arrived"}
Refused(r) == pc[r] = "refused"
Exited(r) == pc[r] = "exited"

CountEv(r, k, w) ==
  Cardinality({i \in DOMAIN trace[r] : trace[r][i].kind = k /\ trace[r][i].what = w})

BusyResponse(n) ==
  [code |-> "503", status |-> "error", success |-> FALSE, error |-> "Server busy",
   duration |-> 0, active |-> n, max |-> MAX_CONCURRENT_RENDERS]

C2_RefusalChangesNothing ==
  [][\A r \in Reqs :
       (pc[r] = "arrived" /\ pc'[r] # "arrived" /\ activeRenders >= MAX_CONCURRENT_RENDERS)
         => /\ pc'[r] = "refused"
            /\ resp'[r] = <<BusyResponse(activeRenders)>>
            /\ trace'[r] = <<[stage |-> "NONE", kind |-> "respond", what |-> "503"]>>
            /\ \A q \in Reqs \ {r} :
                 pc'[q] = pc[q] /\ resp'[q] = resp[q] /\ trace'[q] = trace[q]
            /\ UNCHANGED <<activeRenders, now, body, startTime, renderLog, fetch,
                           files, dirs, logFiles, stage, wsAccess, logHist,
                           assemblyCmd>>]_vars

\* a submission has been refused with 2/2
C2_Witness ==
  \E r \in Reqs :
    /\ Refused(r)
    /\ resp[r] = <<BusyResponse(MAX_CONCURRENT_RENDERS)>>
    /\ activeRenders = MAX_CONCURRENT_RENDERS

Incs(r) == CountEv(r, "counter", "inc")
Decs(r) == CountEv(r, "counter", "dec")

RECURSIVE Held(_)
Held(n) == IF n = 0 THEN 0 ELSE (Incs(n) - Decs(n)) + Held(n - 1)

WroteLog(r) == \E g \in GenIds : \E i \in DOMAIN logHist[g] : logHist[g][i].writer = r

\* the submissions beyond the ceiling, and only they, are refused, each
\* told active = max = ceiling, and none of them writes a log
ExcessRefused ==
  /\ Cardinality({r \in Reqs : Refused(r)}) = NumReq - MAX_CONCURRENT_RENDERS
  /\ \A r \in Reqs :
       Refused(r) => /\ resp[r] = <<BusyResponse(MAX_CONCURRENT_RENDERS)>>
                     /\ ~WroteLog(r)

Pipeline == <<"VALIDATING", "DOWNLOADING", "PREPROCESSING", "ASSEMBLING", "UPLOADING">>

IsStage(ev) == ev.kind = "stage"
Stages(r) == SelectSeq(trace[r], IsStage)

\* a download settling, the upload returning, or a step record other than
\* the error step of the catch block
PipelineEvent(ev) ==
  \/ ev.kind = "fetch"
  \/ ev.kind = "io" /\ ev.what = "upload_done"
  \/ ev.kind = "step" /\ ev.what # "error"

StagesInOrder(r) ==
  LET st == Stages(r) IN
  /\ Len(st) <= Len(Pipeline) + 1
  /\ \A i \in DOMAIN st :
       \/ i <= Len(Pipeline) /\ st[i].what = Pipeline[i]
       \/ i = Len(st) /\ i > 1 /\ st[i].what = "FAILED"
       \/ i = Len(st) /\ i = Len(Pipeline) + 1 /\ st[i].what = "COMPLETE"
  /\ Exited(r) => stage[r] \in {"COMPLETE", "FAILED"}

QuietAfterEnd(r) ==
  \A i \in DOMAIN trace[r] :
    trace[r][i].stage \in {"COMPLETE", "FAILED"} => ~PipelineEvent(trace[r][i])

\* C6 as stated: a job enters VALIDATING, DOWNLOADING, PREPROCESSING,
\* ASSEMBLING, UPLOADING in that order without skipping or re-entering one,
\* ends COMPLETE or FAILED, and no download, upload or step record of the
\* job happens once it is COMPLETE or FAILED.
C6_AsStated == \A r \in Reqs : StagesInOrder(r) /\ QuietAfterEnd(r)

RECURSIVE SumTargets(_)
SumTargets(scenes) ==
  IF scenes = <<>> THEN 0 ELSE Head(scenes).duration + SumTargets(Tail(scenes))

LogWrittenBy(r) ==
  \E i \in DOMAIN logHist[logPath(St, r)] : logHist[logPath(St, r)][i].writer = r

\* C7 as stated: a job for a request with a scene, a narration URL and a
\* destination key that has exited is either COMPLETE with an output of the
\* summed target duration, or FAILED with a non-empty error and a written
\* log.
C7_AsStated ==
  \A r \in Reqs :
    (Exited(r) /\ ValidationError(body[r]) = "") =>
      \/ /\ stage[r] = "COMPLETE"
         /\ renderLog[r].duration = SumTargets(body[r].scenes)
      \/ /\ stage[r] = "FAILED"
         /\ renderLog[r].error # ""
         /\ LogWrittenBy(r)

First(r, k, w) ==
  CHOOSE i \in 1..(Len(trace[r]) + 1) :
    /\ i <= Len(trace[r]) => (trace[r][i].kind = k /\ trace[r][i].what = w)
    /\ \A j \in 1..(i - 1) : ~(trace[r][j].kind = k /\ trace[r][j].what = w)

IsStep(ev) == ev.kind = "step"
StepNames(r) == [i \in DOMAIN SelectSeq(trace[r], IsStep) |-> SelectSeq(trace[r], IsStep)[i].what]
LoggedSteps(l) == [i \in DOMAIN l.steps |-> l.steps[i].step]

\* the log file of job r holds a complete failure entry for the message
FailureLogged(r, msg) ==
  LET f == logFiles[logPath(St, r)] IN
  /\ f # <<>> /\ f[1].writer = r
  /\ f[1].log.completed_at /\ f[1].log.result = "error" /\ f[1].log.error = msg
  /\ f[1].log.steps # <<>>
  /\ f[1].log.steps[Len(f[1].log.steps)] = [step |-> "error", error |-> msg]
  /\ LoggedSteps(f[1].log) = StepNames(r)

WritesBy(r) ==
  Cardinality({p \in GenIds \X (1..(2 * NumReq)) :
                 p[2] \in DOMAIN logHist[p[1]] /\ logHist[p[1]][p[2]].writer = r})

\* C9 as stated: a job that has exited wrote its log file exactly once, a
\* log file once written keeps its first content, and a submission that
\* was refused or is not admitted yet wrote none.
C9_AsStated ==
  /\ \A r \in Reqs : Exited(r) => WritesBy(r) = 1
  /\ \A r \in Reqs : pc[r] \in {"idle", "arrived", "refused"} => WritesBy(r) = 0
  /\ \A g \in GenIds : logHist[g] # <<>> => logFiles[g] = <<logHist[g][1]>>

\* C10 as stated: no workspace directory is read or written by two jobs.
C10_AsStated ==
  \A g \in GenIds : Cardinality({r \in Reqs : <<g, r>> \in wsAccess}) <= 1

Admitted(r) == pc[r] \in {"downloading", "uploading", "exited"}

\* the same request content, under two different generation_id values
SameButId(r, q) ==
  /\ body[r].generation_id # 0 /\ body[q].generation_id # 0
  /\ body[r].generation_id # body[q].generation_id
  /\ [body[r] EXCEPT !.generation_id = 0] = [body[q] EXCEPT !.generation_id = 0]

\* C11 as stated: two admitted jobs with the same request content and
\* different generation_id values touch no common workspace directory and
\* write no common log file.
C11_AsStated ==
  \A r, q \in Reqs :
    (r # q /\ Admitted(r) /\ Admitted(q) /\ SameButId(r, q)) =>
      /\ ~\E g \in GenIds : <<g, r>> \in wsAccess /\ <<g, q>> \in wsAccess
      /\ ~\E g \in GenIds : \E i, j \in DOMAIN logHist[g] :
            logHist[g][i].writer = r /\ logHist[g][j].writer = q

Rejected(r) == Handled(r) /\ ~Refused(r) /\ ValidationError(body[r]) # ""

\* nothing of the pipeline was started for submission r
NothingStarted(r) ==
  /\ \A g \in GenIds : <<g, r>> \notin wsAccess
  /\ fetch[r] = <<>>
  /\ \A i \in DOMAIN trace[r] :
       trace[r][i].kind = "io" => trace[r][i].what = "log_write"

\* C12 as stated: a request without scenes, narration_url or b2_path is
\* rejected with nothing allocated: no workspace, no download, subprocess
\* or upload, no admission slot taken and no log file written.
C12_AsStated ==
  \A r \in Reqs :
    Rejected(r) => (NothingStarted(r) /\ Incs(r) = 0 /\ ~WroteLog(r))

StepsOf(r) == LoggedSteps(renderLog[r])
HasStep(r, name) == \E i \in DOMAIN StepsOf(r) : StepsOf(r)[i] = name
DidIo(r, w) == \E i \in DOMAIN trace[r] : trace[r][i].kind = "io" /\ trace[r][i].what = w

C14_AsStated ==
  \A r \in Reqs : \A i \in DOMAIN body[r].scenes :
    (Admitted(r) /\ FileOf(St, r, <<"processed", i>>) # <<>>) =>
      FileOf(St, r, <<"processed", i>>)[1].dur = body[r].scenes[i].duration

\* ---------------------------------------------------------------- C15
Built(r) == assemblyCmd[r] # <<>>
Cmd(r) == assemblyCmd[r][1]
Branches(r) == Cmd(r).audioFilter.parts
NMusic(r) == Len(body[r].music_segments)
\* the file that transcode input number j (counted from 0) names
InputFile(r, j) == Cmd(r).inputs[j + 1]

\* C15: with N music segments the audio graph has N + 1 branches, narration
\* first and then the segments in request order, branch i reading the input
\* that holds the i-th music file; N = 0 gives the formatted narration
\* labelled as the final audio and no mix stage; N >= 1 gives one mix stage
\* fed by all branches in order, declaring N + 1 inputs and taking its
\* duration from the first input, the narration.
C15_AudioGraphShape ==
  \A r \in Reqs : Built(r) =>
    LET N == NMusic(r)
        mix == Cmd(r).audioFilter.mix
    IN /\ Len(Branches(r)) = N + 1
       /\ InputFile(r, Branches(r)[1].in) = <<"narration", 0>>
       /\ Branches(r)[1].fx = <<>>
       /\ \A i \in 1..N :
            /\ InputFile(r, Branches(r)[i + 1].in) = <<"music", i>>
            /\ Downloads(body[r])[Len(body[r].scenes) + 1 + i] = <<"music", i>>
            /\ Branches(r)[i + 1].fx = <<Effects(body[r], body[r].music_segments[i])>>
       /\ (N = 0) => (mix = <<>> /\ Branches(r)[1].out = Label("audio", 0))
       /\ (N >= 1) =>
            /\ Len(mix) = 1
            /\ mix[1].ins = [k \in 1..(N + 1) |-> Branches(r)[k].out]
            /\ \A j, k \in 1..(N + 1) : j # k => mix[1].ins[j] # mix[1].ins[k]
            /\ mix[1].inputs = N + 1
            /\ mix[1].duration = "first"
            /\ mix[1].out = Label("audio", 0)

\* a command has been built for two different music segments
C15_Witness ==
  /\ Built(1) /\ NMusic(1) = 2
  /\ body[1].music_segments[1] # body[1].music_segments[2]
  /\ Len(Cmd(1).audioFilter.mix) = 1

\* ---------------------------------------------------------------- C16
Presets == {"just_text", "line_box", "word_box"}
WantsCaptions(b) ==
  b.caption_file_url /\ b.caption_style \notin {"", "none"}
CaptionsFetched(b) ==
  \E k \in DOMAIN Downloads(b) : Downloads(b)[k] = <<"captions", 0>>

\* C16 as stated: the overlay is added, and the caption file downloaded,
\* exactly when the request has a caption file URL and a style that is present
\* and not "none"; an added overlay uses the parameters of the named preset,
\* each preset having its own, and the parameters of line_box for every style
\* name outside the three presets.
C16_AsStated ==
  \A r \in Reqs : Built(r) =>
    LET b == body[r]
        overlay == Cmd(r).videoFilter
    IN /\ (overlay # <<>>) <=> WantsCaptions(b)
       /\ CaptionsFetched(b) <=> WantsCaptions(b)
       /\ (overlay # <<>>) =>
            /\ overlay[1].subtitles = <<"captions", 0>>
            /\ b.caption_style \in Presets =>
                 overlay[1].force_style = styles[b.caption_style]
            /\ b.caption_style \notin Presets =>
                 overlay[1].force_style = styles.line_box
       /\ \A x, y \in Presets : x # y => styles[x] # styles[y]

\* ---------------------------------------------------------------- C17
FiveSteps == <<"validate", "download", "preprocess", "assembly", "upload">>
NScenes(r) == Len(body[r].scenes)

\* the log file of a COMPLETE job: n clip entries in scene order, then the
\* one assembly command; the five steps, once each, in order, no error step
CompleteLog(r) ==
  LET f == logFiles[logPath(St, r)] IN
  /\ f # <<>> /\ f[1].writer = r
  /\ f[1].log.ffmpeg_commands =
       [i \in 1..NScenes(r) |-> <<"clip", i>>] \o <<(<<"assembly", 0>>)>>
  /\ [i \in DOMAIN f[1].log.clips |-> f[1].log.clips[i].scene]
       = [i \in 1..NScenes(r) |-> i]
  /\ LoggedSteps(f[1].log) = FiveSteps

\* the step list is the first k of the five steps and then one error step
FailedAfter(r, k) == StepsOf(r) = SubSeq(FiveSteps, 1, k) \o <<"error">>

\* C17 as stated: a COMPLETE job has the complete log; the step list of a
\* FAILED job is a proper prefix of the five steps followed by one error step.
C17_AsStated ==
  \A r \in Reqs :
    /\ stage[r] = "COMPLETE" => CompleteLog(r)
    /\ (stage[r] = "FAILED" /\ Exited(r)) =>
         \E k \in 0..(Len(FiveSteps) - 1) : FailedAfter(r, k)

\* the failures of STEP 6, which come after the upload step was recorded
AfterUploadErrors == {"log write failed", "response failed"}

\* C17 (amended): a COMPLETE job has the complete log; the step list of a
\* FAILED job is a prefix of the five steps followed by one error step, and
\* the prefix is all five steps exactly when writing the log or sending the
\* response failed after the upload.
C17_LogShape ==
  \A r \in Reqs :
    /\ stage[r] = "COMPLETE" => CompleteLog(r)
    /\ (stage[r] = "FAILED" /\ Exited(r)) =>
         \E k \in 0..Len(FiveSteps) :
           /\ FailedAfter(r, k)
           /\ (k = Len(FiveSteps)) <=> (renderLog[r].error \in AfterUploadErrors)

\* a job of two scenes has ended COMPLETE
C17_Witness ==
  \E r \in Reqs : stage[r] = "COMPLETE" /\ Exited(r) /\ NScenes(r) = 2

\* ---------------------------------------------------------------- C18
Output(r) == FileOf(St, r, <<"output", 0>>)
\* the recorded duration of the output is the duration the file has
ProbedOk(r) == Output(r) # <<>> /\ renderLog[r].duration = Output(r)[1].dur
OutputValid(r) ==
  Output(r) # <<>> /\ Output(r)[1].size > MinOutputSize /\ ProbedOk(r)
SuccessSent(r) == \E i \in DOMAIN resp[r] : resp[r][i].code = "200"

\* C18 as stated: the upload is attempted only if the output file exists, is
\* larger than 1000 bytes and had its duration probed; a job whose final
\* transcode ran and whose output fails one of the three ends FAILED with
\* no upload and no success response.
C18_AsStated ==
  \A r \in Reqs :
    /\ DidIo(r, "upload_start") => OutputValid(r)
    /\ (Exited(r) /\ Built(r) /\ ~OutputValid(r)) =>
         (stage[r] = "FAILED" /\ ~DidIo(r, "upload_start") /\ ~SuccessSent(r))

\* ---------------------------------------------------------------- C19
InHandler(r) == pc[r] \in {"downloading", "uploading", "blocked"}
Ended(r) == Exited(r) /\ stage[r] \in {"COMPLETE", "FAILED"}

\* C19 as stated: an admitted render job eventually ends COMPLETE or FAILED
\* and releases its slot, whatever the servers answer and whatever the
\* subprocesses do.
C19_AsStated ==
  \A r \in Reqs : InHandler(r) ~> (Ended(r) /\ Incs(r) = Decs(r))

\* ---------------------------------------------------------------- C20
IsClipCommand(c) == c[1] = "clip"
ClipCommands(r) == SelectSeq(renderLog[r].ffmpeg_commands, IsClipCommand)
\* the scenes normalized so far
Normalized(r) == Len(ClipCommands(r))
ClipFailed(r) == renderLog[r].error = "FFmpeg failed (clip)"
Processed(r, i) == FileOf(St, r, <<"processed", i>>) # <<>>
ConcatList(r) == FileOf(St, r, <<"concat", 0>>)

\* C20: the scenes are normalized in scene order 1..n; when the
\* normalization of scene k fails, no later scene is probed or transcoded,
\* the concat list is not written and neither the final assembly nor the
\* upload runs; the final assembly runs only after all n scenes were
\* normalized, with a concat list that names the n processed clips in scene
\* order.
C20_ScenesInOrderOrNothing ==
  \A r \in Reqs : Admitted(r) =>
    LET n == NScenes(r)
        k == Normalized(r)
    IN /\ ClipCommands(r) = [i \in 1..k |-> <<"clip", i>>]
       /\ \A i \in 1..n : Processed(r, i) <=> i <= k
       /\ ClipFailed(r) =>
            /\ k < n
            /\ CountEv(r, "io", "probe") = k + 1
            /\ CountEv(r, "io", "ffmpeg") = k + 1
            /\ ConcatList(r) = <<>> /\ ~DidIo(r, "concat")
            /\ ~Built(r) /\ ~DidIo(r, "upload_start")
       /\ (Built(r) \/ DidIo(r, "concat") \/ DidIo(r, "upload_start")) =>
            /\ k = n
            /\ ConcatList(r) # <<>>
            /\ ConcatList(r)[1].list = [i \in 1..n |-> <<"processed", i>>]

\* the second of two scenes failed: the first is processed, nothing follows
C20_Witness ==
  \E r \in Reqs :
    /\ Exited(r) /\ ClipFailed(r) /\ NScenes(r) = 2
    /\ Normalized(r) = 1 /\ Processed(r, 1) /\ ~Processed(r, 2)

\* ---------------------------------------------------------------- C21
\* the parameters the request itself gives for a segment
OwnEffects(b, seg) ==
  [volume |-> IF b.music_volume = undefined THEN volDefault ELSE b.music_volume,
   fadeIn |-> seg.fade_in,
   fadeOutStart |-> MaxOf(0, seg.duration - seg.fade_out),
   fadeOut |-> seg.fade_out,
   adelay |-> IF seg.start_time > 0 THEN <<RoundMs(seg.start_time)>> ELSE <<>>]

\* C21 as stated: the branch of every music segment carries the request's
\* own values: gain music_volume (0.08 only when absent), fade-in of fade_in,
\* fade-out of fade_out from max(0, duration - fade_out), which is never
\* negative, and a delay of round(start_time * 1000) ms exactly when
\* start_time > 0; values 0 and starts below half a millisecond included.
C21_AsStated ==
  \A r \in Reqs : Built(r) =>
    \A i \in 1..NMusic(r) :
      /\ Branches(r)[i + 1].fx = <<OwnEffects(body[r], body[r].music_segments[i])>>
      /\ Branches(r)[i + 1].fx[1].fadeOutStart >= 0

\* ---------------------------------------------------------------- C22
FailureResponse(x) ==
  x.code = "500" /\ x.status = "error" /\ ~x.success /\ x.error # ""
SuccessResponse(x) == x.code = "200" /\ x.status = "complete" /\ x.success

\* no submission has two responses, and each response fits the outcome
ResponsesFit ==
  \A r \in Reqs :
    /\ Len(resp[r]) <= 1
    /\ Refused(r) => resp[r] = <<BusyResponse(MAX_CONCURRENT_RENDERS)>>
    /\ \A i \in DOMAIN resp[r] :
         /\ resp[r][i].code = "503" <=> Refused(r)
         /\ resp[r][i].code = "500" => (FailureResponse(resp[r][i]) /\ stage[r] = "FAILED")
         /\ resp[r][i].code = "200" =>
              /\ SuccessResponse(resp[r][i])
              /\ stage[r] = "COMPLETE" /\ DidIo(r, "upload_done")

\* C22 as stated: every render submission gets exactly one response: busy
\* for a refusal, a server error with status "error", success false and the
\* error for a failed job, status "complete" only for a job whose upload
\* succeeded; none has two and none is left without one once its job has
\* exited.
C22_AsStated ==
  /\ ResponsesFit
  /\ \A r \in Reqs : (Exited(r) \/ Refused(r)) => Len(resp[r]) = 1

\* ---------------------------------------------------------------- C23
Released(ev) == ev.kind = "counter" /\ ev.what = "dec"
\* a fetch of job r resolved or rejected after the job released its slot
SettledAfterExit(r) ==
  \E i, j \in DOMAIN trace[r] :
    i < j /\ Released(trace[r][i]) /\ trace[r][j].kind = "fetch"

\* C23 as stated: once a render job has exited and released its slot none
\* of its fetches is in flight, and none resolves, rejects or writes to the
\* workspace afterwards.
C23_AsStated ==
  \A r \in Reqs :
    Exited(r) => /\ \A i \in DOMAIN fetch[r] : ~Inflight(r, i)
                 /\ ~SettledAfterExit(r)

\* ---------------------------------------------------------------- C24
\* the probe and transcode subprocesses job r has run
Subprocesses(r) == CountEv(r, "io", "probe") + CountEv(r, "io", "ffmpeg")

\* C24: subprocesses run for one job at a time, and the step in which a job
\* runs them goes from the completion of its downloads to the start of its
\* upload (or to its failure) with nothing interleaved: no other job's
\* stage, position, events or responses change, no submission is admitted
\* or refused, and the counter changes only by the job's own release when
\* it fails.
C24_NothingInterleaved ==
  [][\A r \in Reqs :
       (Subprocesses(r)' > Subprocesses(r)) =>
         /\ pc[r] = "downloading" /\ stage[r] = "DOWNLOADING"
         /\ \A i \in DOMAIN fetch'[r] : fetch'[r][i] = "ok"
         /\ \/ /\ pc'[r] = "uploading" /\ stage'[r] = "UPLOADING"
               /\ activeRenders' = activeRenders
            \/ /\ pc'[r] = "exited" /\ stage'[r] = "FAILED"
               /\ activeRenders' = activeRenders - 1
         /\ \A q \in Reqs \ {r} :
              /\ pc'[q] = pc[q] /\ stage'[q] = stage[q]
              /\ trace'[q] = trace[q] /\ resp'[q] = resp[q]]_vars

\* a job has run its subprocesses and awaits its upload while another job
\* is still downloading
C24_Witness ==
  \E r, q \in Reqs :
    /\ pc[r] = "uploading" /\ Subprocesses(r) >= 3
    /\ pc[q] = "downloading" /\ stage[q] = "DOWNLOADING"

\* ---------------------------------------------------------------- C25
\* C25 as stated: activeJobs never exceeds MAX_CONCURRENT, whatever the
\* interleaving of /kenburns and /kenburns/batch requests.
C25_AsStated == activeJobs <= MAX_CONCURRENT

\* ---------------------------------------------------------------- C26
JobsInFlight == Cardinality({q \in KbReqs : kheld[q]})

\* C26 as stated: activeJobs is the number of jobs in flight; a job that
\* incremented the counter decrements it exactly once, and no request or
\* scene decrements it without having incremented it, on every exit path.
C26_AsStated ==
  /\ activeJobs = JobsInFlight
  /\ \A q \in KbReqs :
       /\ khist[q].dec <= khist[q].inc
       /\ kpc[q] = "done" => khist[q].dec = khist[q].inc

\* ---------------------------------------------------------------- C27
Answered27(q) == kresp[q] # <<>>

\* C27 as stated: when the response of a request is sent every job
\* directory it created has been removed, and a request answered 400 or
\* 429 has created none.
C27_AsStated ==
  \A q \in KbReqs :
    Answered27(q) =>
      /\ kdirs[q] = {}
      /\ kresp[q][1] \in {"400", "429"} => khist[q].made = 0

\* C27 (amended): when the response of a request is sent, cleanupJob has
\* been awaited for every job directory the request created, so that a
\* directory is left only if its removal failed; a request answered 400 or
\* 429 has created none.
C27_CleanedUnlessRemovalFailed ==
  \A q \in KbReqs :
    Answered27(q) =>
      /\ kdirs[q] \subseteq khist[q].kept
      /\ kresp[q][1] \in {"400", "429"} => khist[q].made = 0

\* a /kenburns request failed after its directory was made and was answered
\* 500 with the directory removed, and a batch was answered after two scenes
C27_Witness ==
  \E q, p \in KbReqs :
    /\ kreq[q].route = "single" /\ kresp[q] = <<"500">>
    /\ khist[q].made = 1 /\ kdirs[q] = {}
    /\ kreq[p].route = "batch" /\ kresp[p] = <<"200">>
    /\ khist[p].made = 2 /\ kdirs[p] = {}

====
